---- MODULE Spec2Model ----
(***************************************************************************)
(* A model of tablemd.py: the config loader, the backend dispatch of       *)
(* main(), the table enumeration, the metadata collection and the          *)
(* Markdown renderers of the Oracle and SQL Server pipelines.              *)
(*                                                                         *)
(* A Python str is a sequence of one-character strings.  Python's None is  *)
(* the empty sequence <<>> of an optional value and <<v>> is the value v.  *)
(***************************************************************************)
EXTENDS Integers, Sequences, FiniteSets, TLC

VARIABLES
    \* the inputs of a run of main(): argv, the config file, the catalog
    hasArg, table_pat, propExists, cfgLines, catalog,
    \* the run: position in main(), locals, the connection, the output
    \* directory, the events so far, and how the process ended
    pc, conf, backend, conn, acquired, tables, idx, cols, pk_cols, fk_map,
    files, written, trace, applied, outcome, exitStatus, pending, failedAt,
    \* the number of the run and the files as the run before left them
    run, prevFiles,
    \* load_properties, line by line
    pLines, pI, pConf, pPc,
    \* one row of oracle_write_md / mssql_write_md
    rBackend, rCol, rPk, rFk, rLens, rDefault, rComment, rRow, rPc

mainVars ==
    <<hasArg, table_pat, propExists, cfgLines, catalog, pc, conf, backend, conn, acquired,
      tables, idx, cols, pk_cols, fk_map, files, written, trace, applied, outcome,
      exitStatus, pending, failedAt, run, prevFiles>>
propVars == <<pLines, pI, pConf, pPc>>
renderVars == <<rBackend, rCol, rPk, rFk, rLens, rDefault, rComment, rRow, rPc>>
vars == <<mainVars, propVars, renderVars>>

(***************************************************************************)
(* Bounds of the model.                                                    *)
(***************************************************************************)
MaxLines == 2
MaxLineLen == 2
MaxTextLen == 2
MaxRuns == 2

(***************************************************************************)
(* str helpers.                                                            *)
(***************************************************************************)
SeqsUpTo(S, n) == UNION {[1..k -> S] : k \in 0..n}

\* str.strip() with no argument removes leading and trailing whitespace
IsSpace(c) == c = " "

RECURSIVE LStrip(_)
LStrip(s) == IF s # <<>> /\ IsSpace(Head(s)) THEN LStrip(Tail(s)) ELSE s

RECURSIVE RStrip(_)
RStrip(s) ==
    IF s # <<>> /\ IsSpace(s[Len(s)]) THEN RStrip(SubSeq(s, 1, Len(s) - 1)) ELSE s

Strip(s) == RStrip(LStrip(s))

\* "c in s"
Contains(s, c) == \E i \in DOMAIN s : s[i] = c

\* s.startswith(c) for a one-character c
StartsWith(s, c) == s # <<>> /\ s[1] = c

\* the scan of s.split(c, 1): the index of the first c at or after i
RECURSIVE FindFrom(_, _, _)
FindFrom(s, c, i) ==
    IF i > Len(s) THEN 0
    ELSE IF s[i] = c THEN i
    ELSE FindFrom(s, c, i + 1)

\* the index of the last c at or before i
RECURSIVE FindBack(_, _, _)
FindBack(s, c, i) ==
    IF i < 1 THEN 0
    ELSE IF s[i] = c THEN i
    ELSE FindBack(s, c, i - 1)

\* a variant that splits at the last c, as s.rsplit(c, 1)
SplitLast(s, c) ==
    LET i == FindBack(s, c, Len(s))
    IN  <<SubSeq(s, 1, i - 1), SubSeq(s, i + 1, Len(s))>>

\* s.split(c, 1) of a string that contains c
SplitFirst(s, c) ==
    LET i == FindFrom(s, c, 1)
    IN  <<SubSeq(s, 1, i - 1), SubSeq(s, i + 1, Len(s))>>

(***************************************************************************)
(* load_properties.                                                        *)
(***************************************************************************)
EmptyConf == [k \in {} |-> <<>>]

\* conf[k] = v
DictSet(cf, k, v) ==
    [x \in DOMAIN cf \cup {k} |-> IF x = k THEN v ELSE cf[x]]

\* conf.get(k, d)
DictGet(cf, k, d) == IF k \in DOMAIN cf THEN cf[k] ELSE d

\* the body of the for loop of load_properties, for one line
LoadLine(cf, raw) ==
    LET line == Strip(raw)
    IN  IF line = <<>> \/ StartsWith(line, "#") THEN cf
        ELSE IF Contains(line, "=")
             THEN LET kv == SplitFirst(line, "=")
                  IN  DictSet(cf, Strip(kv[1]), Strip(kv[2]))
             ELSE cf

RECURSIVE LoadFrom(_, _, _)
LoadFrom(cf, lines, i) ==
    IF i > Len(lines) THEN cf
    ELSE LoadFrom(LoadLine(cf, lines[i]), lines, i + 1)

load_properties(lines) == LoadFrom(EmptyConf, lines, 1)

(***************************************************************************)
(* The renderers.                                                          *)
(***************************************************************************)
Digits == <<"0", "1", "2", "3", "4", "5", "6", "7", "8", "9">>

RECURSIVE NatToStr(_)
NatToStr(n) ==
    IF n < 10 THEN <<Digits[n + 1]>>
    ELSE NatToStr(n \div 10) \o <<Digits[(n % 10) + 1]>>

\* str(int(n)) and f"{int(n)}"
IntToStr(n) == IF n < 0 THEN <<"-">> \o NatToStr(0 - n) ELSE NatToStr(n)

\* (x or "") of an optional str
OrEmpty(x) == IF x = <<>> THEN <<>> ELSE x[1]

\* a variant that escapes nothing
md_escape_none(s) == s

\* s.replace("|", "\\|")
RECURSIVE md_escape(_)
md_escape(s) ==
    IF s = <<>> THEN <<>>
    ELSE IF Head(s) = "|" THEN <<"\\", "|">> \o md_escape(Tail(s))
    ELSE <<Head(s)>> \o md_escape(Tail(s))

\* the header and the separator line; the atoms H1..H8 stand for the eight
\* (non-ASCII) column titles, which hold no "|"
HeaderLine ==
    <<"|", " ", "H1", " ", "|", " ", "H2", " ", "|", " ", "H3", " ", "|", " ", "H4",
      " ", "|", " ", "H5", " ", "|", " ", "H6", " ", "|", " ", "H7", " ", "|", " ",
      "H8", " ", "|">>

SeparatorLine ==
    <<"|", "-", "-", "-", "|", "-", "-", "-", "|", "-", "-", "-", ":", "|", ":", "-",
      "-", "-", ":", "|", ":", "-", "-", "-", ":", "|", ":", "-", "-", "-", ":", "|",
      ":", "-", "-", "-", ":", "|", "-", "-", "-", "|">>

\* f"| {a} | {b} | {c} | {d} | {e} | {f} | {g} | {h} |"
RowLine(a, b, c, d, e, f, g, h) ==
    <<"|", " ">> \o a \o <<" ", "|", " ">> \o b \o <<" ", "|", " ">> \o c
        \o <<" ", "|", " ">> \o d \o <<" ", "|", " ">> \o e \o <<" ", "|", " ">> \o f
        \o <<" ", "|", " ">> \o g \o <<" ", "|", " ">> \o h \o <<" ", "|">>

\* the FK cell, "FK", an arrow, and fk_to between backquotes, if fk_to else "";
\* the atom "->" stands for the arrow U+2192 and "BQ" for the backquote
FkCell(fk_to) ==
    IF fk_to # <<>> THEN <<"F", "K", " ", "->", " ", "BQ">> \o fk_to \o <<"BQ">> ELSE <<>>

\* the Length/Precision cell of oracle_write_md
OracleLens(c) ==
    IF c.data_precision # <<>>
    THEN IF c.data_scale # <<>>
         THEN IntToStr(c.data_precision[1]) \o <<",">> \o IntToStr(c.data_scale[1])
         ELSE IntToStr(c.data_precision[1])
    ELSE IF c.data_length # <<>> THEN IntToStr(c.data_length[1])
    ELSE <<>>

\* one row of oracle_write_md
OracleRow(c, pks, fkm) ==
    LET dtype == c.data_type
        lens == OracleLens(c)
        nullable == IF c.nullable = <<"Y">> THEN <<"Y">> ELSE <<"N">>
        default == md_escape(Strip(OrEmpty(c.data_default)))
        is_pk == IF c.column_name \in pks THEN <<"Y">> ELSE <<>>
        fk_to == DictGet(fkm, c.column_name, <<>>)
        comment == md_escape(OrEmpty(c.column_comment))
    IN  RowLine(c.column_name, dtype, lens, nullable, default, is_pk, FkCell(fk_to), comment)

\* a variant with the branches of oracle_write_md
MssqlLensAsOracle(c) ==
    IF c.precision # <<>>
    THEN IF c.scale # <<>>
         THEN IntToStr(c.precision[1]) \o <<",">> \o IntToStr(c.scale[1])
         ELSE IntToStr(c.precision[1])
    ELSE IF c.max_length # <<>> THEN IntToStr(c.max_length[1])
    ELSE <<>>

\* the Length/Precision cell of mssql_write_md; "if prec" is false of None and of 0
MssqlLens(c) ==
    IF (c.precision # <<>> /\ c.precision[1] # 0) /\ c.scale # <<>> /\ c.precision[1] # 0
    THEN IntToStr(c.precision[1]) \o <<",">> \o IntToStr(c.scale[1])
    ELSE IF c.max_length # <<>> THEN IntToStr(c.max_length[1])
    ELSE <<>>

\* one row of mssql_write_md
MssqlRow(c, pks, fkm) ==
    LET lens == MssqlLens(c)
        nullable == IF c.is_nullable THEN <<"Y">> ELSE <<"N">>
        default == md_escape(Strip(OrEmpty(c.data_default)))
        is_pk == IF c.column_name \in pks THEN <<"Y">> ELSE <<>>
        fk_to == DictGet(fkm, c.column_name, <<>>)
        comment == md_escape(OrEmpty(c.column_comment))
    IN  RowLine(c.column_name, c.data_type, lens, nullable, default, is_pk,
                FkCell(fk_to), comment)

(***************************************************************************)
(* The strings of main().                                                  *)
(***************************************************************************)
K_DB_TYPE == <<"D", "B", "_", "T", "Y", "P", "E">>

K_OUTPUT_BASE == <<"O", "U", "T", "P", "U", "T", "_", "B", "A", "S", "E">>

K_ORA_USER == <<"O", "R", "A", "_", "U", "S", "E", "R">>

K_ORA_SCHEMA == <<"O", "R", "A", "_", "S", "C", "H", "E", "M", "A">>

K_MSSQL_DBNAME == <<"M", "S", "S", "Q", "L", "_", "D", "B", "N", "A", "M", "E">>

S_oracle == <<"o", "r", "a", "c", "l", "e">>

S_sqlserver == <<"s", "q", "l", "s", "e", "r", "v", "e", "r">>

S_output == <<"o", "u", "t", "p", "u", "t">>

S_ORACLE == <<"O", "R", "A", "C", "L", "E">>

S_MSSQL == <<"M", "S", "S", "Q", "L">>

TABLE_PREFIX == <<"T", "A", "B", "L", "E", "_">>

MD_SUFFIX == <<".", "m", "d">>

(***************************************************************************)
(* Character case and order.                                               *)
(***************************************************************************)
UpperLetters ==
    <<"A", "B", "C", "D", "E", "F", "G", "H", "I", "J", "K", "L", "M", "N", "O", "P", "Q",
      "R", "S", "T", "U", "V", "W", "X", "Y", "Z">>

LowerLetters ==
    <<"a", "b", "c", "d", "e", "f", "g", "h", "i", "j", "k", "l", "m", "n", "o", "p", "q",
      "r", "s", "t", "u", "v", "w", "x", "y", "z">>

IndexIn(letters, c) == CHOOSE i \in DOMAIN letters : letters[i] = c

UpperChar(c) ==
    IF \E i \in DOMAIN LowerLetters : LowerLetters[i] = c
    THEN UpperLetters[IndexIn(LowerLetters, c)] ELSE c

LowerChar(c) ==
    IF \E i \in DOMAIN UpperLetters : UpperLetters[i] = c
    THEN LowerLetters[IndexIn(UpperLetters, c)] ELSE c

\* str.upper() and SQL UPPER()
ToUpper(s) == [i \in DOMAIN s |-> UpperChar(s[i])]

\* str.lower()
ToLower(s) == [i \in DOMAIN s |-> LowerChar(s[i])]

\* the characters in code point order, for ORDER BY on names
CharOrder == <<"%", ".">> \o UpperLetters \o <<"_">> \o LowerLetters

CharRank(c) == IndexIn(CharOrder, c)

RECURSIVE StrLeq(_, _)
StrLeq(a, b) ==
    IF a = <<>> THEN TRUE
    ELSE IF b = <<>> THEN FALSE
    ELSE IF Head(a) = Head(b) THEN StrLeq(Tail(a), Tail(b))
    ELSE CharRank(Head(a)) < CharRank(Head(b))

\* the orders in which a query may return a set of rows: every order when the
\* query has no ORDER BY, else those that agree with the sort key
Orderings(rows) ==
    {s \in [1..Cardinality(rows) -> rows] : \A i, j \in DOMAIN s : i # j => s[i] # s[j]}

OrderedById(rows) ==
    {s \in Orderings(rows) : \A i, j \in DOMAIN s : i < j => s[i].column_id <= s[j].column_id}

OrderedByName(rows) ==
    {s \in Orderings(rows) : \A i, j \in DOMAIN s : i < j => StrLeq(s[i].name, s[j].name)}

(***************************************************************************)
(* The table enumeration.                                                  *)
(***************************************************************************)
\* a variant that knows only the "%" wildcard
is_like_pattern_percent_only(pat) == Contains(pat, "%")

is_like_pattern(pat) == Contains(pat, "%") \/ Contains(pat, "_")

\* SQL's  s LIKE p : "%" stands for any run of characters, "_" for any one
RECURSIVE SqlLike(_, _)
SqlLike(s, p) ==
    IF p = <<>> THEN s = <<>>
    ELSE IF Head(p) = "%" THEN SqlLike(s, Tail(p)) \/ (s # <<>> /\ SqlLike(Tail(s), p))
    ELSE s # <<>> /\ (Head(p) = "_" \/ Head(p) = Head(s)) /\ SqlLike(Tail(s), Tail(p))

\* the WHERE clauses of oracle_fetch_tables: the branch picks the statement
OracleWhere(t, owner, pat) ==
    IF is_like_pattern(pat)
    THEN t.owner = owner /\ SqlLike(ToUpper(t.name), ToUpper(pat))
    ELSE t.owner = owner /\ ToUpper(t.name) = ToUpper(pat)

\* the WHERE clause of mssql_fetch_tables with its four parameters
MssqlWhere(t, like1, pat1, like2, pat2) ==
    \/ like1 = 1 /\ SqlLike(ToUpper(t.name), ToUpper(pat1))
    \/ like2 = 0 /\ ToUpper(t.name) = ToUpper(pat2)

\* [r[0] for r in cur.fetchall()]
Names(rows) == [i \in DOMAIN rows |-> rows[i].name]

\* the lists oracle_fetch_tables may return (one: owner and name are a key)
oracle_fetch_tables(cat, schema, pat) ==
    LET schema_up == ToUpper(schema)
    IN  {Names(s) : s \in OrderedByName({t \in cat.tables : OracleWhere(t, schema_up, pat)})}

\* the lists mssql_fetch_tables may return: sys.tables holds the tables of
\* every schema of the database, and the statement names no schema
mssql_fetch_tables(cat, dbname, pat) ==
    LET like == IF is_like_pattern(pat) THEN 1 ELSE 0
    IN  {Names(s) : s \in OrderedByName({t \in cat.tables :
                                           MssqlWhere(t, like, pat, like, pat)})}

(***************************************************************************)
(* The metadata queries.                                                   *)
(***************************************************************************)
\* the column rows of oracle_collect_meta, keyed by the lower-cased names
OracleColRow(c) ==
    [column_name |-> c.column_name, data_type |-> c.data_type,
     data_length |-> c.length, data_precision |-> c.precision,
     data_scale |-> c.scale, nullable |-> IF c.nullable THEN <<"Y">> ELSE <<"N">>,
     data_default |-> c.default, column_comment |-> c.comment]

\* the column rows of mssql_collect_meta
MssqlColRow(c) ==
    [column_name |-> c.column_name, data_type |-> c.data_type,
     max_length |-> c.length, precision |-> c.precision,
     scale |-> c.scale, is_nullable |-> c.nullable,
     data_default |-> c.default, column_comment |-> c.comment]

OracleCols(cat, schema, table) ==
    LET rows == {c \in cat.columns : c.owner = ToUpper(schema) /\ c.table = ToUpper(table)}
    IN  {[i \in DOMAIN s |-> OracleColRow(s[i])] : s \in OrderedById(rows)}

MssqlCols(cat, table) ==
    LET rows == {c \in cat.columns : c.table = table}
    IN  {[i \in DOMAIN s |-> MssqlColRow(s[i])] : s \in OrderedById(rows)}

OraclePk(cat, schema, table) ==
    {k.column_name : k \in {p \in cat.pks : /\ p.owner = ToUpper(schema)
                                             /\ p.table = ToUpper(table)}}

MssqlPk(cat, table) == {k.column_name : k \in {p \in cat.pks : p.table = table}}

\* fk_map[col] = f"{rtbl}.{rcol}" for the rows from position i on
RECURSIVE FkMapFrom(_, _, _)
FkMapFrom(fkm, rows, i) ==
    IF i > Len(rows) THEN fkm
    ELSE FkMapFrom(DictSet(fkm, rows[i].col, rows[i].r_table \o <<".">> \o rows[i].r_col),
                   rows, i + 1)

\* the fk_sql statements have no ORDER BY
OracleFk(cat, schema, table) ==
    LET rows == {f \in cat.fks : f.owner = ToUpper(schema) /\ f.table = ToUpper(table)}
    IN  {FkMapFrom(EmptyConf, s, 1) : s \in Orderings(rows)}

MssqlFk(cat, table) ==
    LET rows == {f \in cat.fks : f.table = table}
    IN  {FkMapFrom(EmptyConf, s, 1) : s \in Orderings(rows)}

(***************************************************************************)
(* The documents.                                                          *)
(***************************************************************************)
\* "\n".join(lines)
RECURSIVE Join(_)
Join(lines) ==
    IF lines = <<>> THEN <<>>
    ELSE IF Len(lines) = 1 THEN lines[1]
    ELSE lines[1] \o <<"\n">> \o Join(Tail(lines))

\* the heading line; the atom "TITLE" stands for its (non-ASCII) label
HeadingLine(table) == <<"#", "#", " ", "TITLE", ":">> \o table \o <<"\n">>

\* the text oracle_write_md writes
OracleDoc(table, cs, pks, fkm) ==
    Join(<<HeadingLine(table), HeaderLine, SeparatorLine>>
             \o [i \in DOMAIN cs |-> OracleRow(cs[i], pks, fkm)])

\* the text mssql_write_md writes
MssqlDoc(table, cs, pks, fkm) ==
    Join(<<HeadingLine(table), HeaderLine, SeparatorLine>>
             \o [i \in DOMAIN cs |-> MssqlRow(cs[i], pks, fkm)])

\* out_dir / f"TABLE_{table}.md", as the path's components
FilePath(out_dir, table) == out_dir \o <<TABLE_PREFIX \o table \o MD_SUFFIX>>

(***************************************************************************)
(* The loader and the renderer at rest, while main() runs.                  *)
(***************************************************************************)
RenderIdle ==
    /\ rBackend = "none"
    /\ rCol = <<>>
    /\ rPk = {}
    /\ rFk = EmptyConf
    /\ rLens = <<>>
    /\ rDefault = <<>>
    /\ rComment = <<>>
    /\ rRow = <<>>
    /\ rPc = "idle"

PropsIdle ==
    /\ pLines = <<>>
    /\ pI = 0
    /\ pConf = EmptyConf
    /\ pPc = "idle"

(***************************************************************************)
(* The inputs of a run: the config files, the patterns and the catalogs.   *)
(***************************************************************************)
CfgOracle ==
    <<<<"#", " ", "c", "f", "g">>,
      <<"D", "B", "_", "T", "Y", "P", "E", " ", "=", " ", "O", "r", "a", "c", "l", "e">>,
      <<"O", "R", "A", "_", "U", "S", "E", "R", "=", "a", "p", "p">>>>

CfgSqlServer ==
    <<<<"D", "B", "_", "T", "Y", "P", "E", "=", "s", "q", "l", "s", "e", "r", "v", "e", "r">>,
      <<"M", "S", "S", "Q", "L", "_", "D", "B", "N", "A", "M", "E", "=", "d", "b">>>>

CfgMySql ==
    <<<<"D", "B", "_", "T", "Y", "P", "E", "=", "m", "y", "s", "q", "l">>>>

CfgNoType ==
    <<<<"O", "R", "A", "_", "U", "S", "E", "R", "=", "a", "p", "p">>>>

CfgOracleNoUser ==
    <<<<"D", "B", "_", "T", "Y", "P", "E", "=", "o", "r", "a", "c", "l", "e">>>>

CfgLastWins ==
    <<<<"D", "B", "_", "T", "Y", "P", "E", "=", "o", "r", "a", "c", "l", "e">>,
      <<"O", "R", "A", "_", "U", "S", "E", "R", "=", "a", "p", "p">>,
      <<"D", "B", "_", "T", "Y", "P", "E", "=", "S", "Q", "L", "S", "E", "R", "V", "E", "R">>>>

ConfigFiles == {CfgOracle, CfgSqlServer, CfgMySql, CfgNoType, CfgOracleNoUser, CfgLastWins}

Patterns == {<<"A", "%">>, <<"A", "_">>, <<"a", "b">>, <<"C">>}

Column(owner, table, id, name, length, precision, scale, nullable, default) ==
    [owner |-> owner, table |-> table, column_id |-> id, column_name |-> name,
     data_type |-> <<"N">>, length |-> length, precision |-> precision, scale |-> scale,
     nullable |-> nullable, default |-> default, comment |-> <<>>]

APP == <<"A", "P", "P">>

OTH == <<"O", "T", "H">>

AB == <<"A", "B">>

AC == <<"A", "C">>

\* three tables of one schema; column X of AB stands in two foreign keys
CatalogOneSchema ==
    [tables |-> {[owner |-> APP, name |-> AB], [owner |-> APP, name |-> AC],
                 [owner |-> APP, name |-> <<"B">>]},
     columns |-> {Column(APP, AB, 1, <<"X">>, <<22>>, <<10>>, <<2>>, FALSE, <<>>),
                  Column(APP, AB, 2, <<"Y">>, <<255>>, <<>>, <<>>, TRUE, << <<"a", "|">> >>),
                  Column(APP, AC, 1, <<"X">>, <<255>>, <<>>, <<>>, TRUE, <<>>),
                  Column(APP, <<"B">>, 1, <<"X">>, <<255>>, <<>>, <<>>, TRUE, <<>>)},
     pks |-> {[owner |-> APP, table |-> AB, column_name |-> <<"X">>]},
     fks |-> {[owner |-> APP, table |-> AB, col |-> <<"X">>, r_table |-> <<"P">>,
               r_col |-> <<"I">>],
              [owner |-> APP, table |-> AB, col |-> <<"X">>, r_table |-> <<"Q">>,
               r_col |-> <<"J">>]}]

\* a table of the same name in each of two schemas
CatalogTwoSchemas ==
    [tables |-> {[owner |-> APP, name |-> AB], [owner |-> OTH, name |-> AB]},
     columns |-> {Column(APP, AB, 1, <<"X">>, <<255>>, <<>>, <<>>, TRUE, <<>>),
                  Column(OTH, AB, 2, <<"Z">>, <<255>>, <<>>, <<>>, TRUE, <<>>)},
     pks |-> {},
     fks |-> {}]

Catalogs == {CatalogOneSchema, CatalogTwoSchemas}

(***************************************************************************)
(* main().                                                                 *)
(***************************************************************************)
ExitUsage == 1

ExitNoConfig == 2

ExitBadType == 3

\* conf.get("DB_TYPE", "").lower()
DbType(cf) == ToLower(DictGet(cf, K_DB_TYPE, <<>>))

\* Path(conf.get("OUTPUT_BASE", "output"))
OutputBase(cf) == DictGet(cf, K_OUTPUT_BASE, S_output)

\* conf.get("ORA_USER"): an optional str
UserId(cf) == IF K_ORA_USER \in DOMAIN cf THEN <<cf[K_ORA_USER]>> ELSE <<>>

\* conf.get("ORA_SCHEMA", user_id): an optional str
Schema(cf) == IF K_ORA_SCHEMA \in DOMAIN cf THEN <<cf[K_ORA_SCHEMA]>> ELSE UserId(cf)

\* conf.get("MSSQL_DBNAME", "MSSQL")
DbId(cf) == DictGet(cf, K_MSSQL_DBNAME, S_MSSQL)

\* output_base / (user_id or "ORACLE")  and  output_base / db_id
OutDir(cf, be) ==
    IF be = "oracle"
    THEN <<OutputBase(cf), IF OrEmpty(UserId(cf)) # <<>> THEN UserId(cf)[1] ELSE S_ORACLE>>
    ELSE <<OutputBase(cf), DbId(cf)>>

Event(ev, t, what) == [ev |-> ev, t |-> t, what |-> what]

inputVars == <<hasArg, table_pat, propExists, cfgLines, catalog>>

metaVars == <<cols, pk_cols, fk_map>>

MainFresh ==
    /\ pc = "args"
    /\ conf = EmptyConf
    /\ backend = "none"
    /\ conn = "none"
    /\ acquired = 0
    /\ tables = <<>>
    /\ idx = 0
    /\ cols = <<>>
    /\ pk_cols = {}
    /\ fk_map = EmptyConf
    /\ written = <<>>
    /\ trace = <<>>
    /\ applied = {}
    /\ outcome = "running"
    /\ exitStatus = 0
    /\ pending = "none"
    /\ failedAt = "none"

MainInit ==
    /\ hasArg \in BOOLEAN
    /\ table_pat \in IF hasArg THEN Patterns ELSE {<<>>}
    /\ propExists \in BOOLEAN
    /\ cfgLines \in IF propExists THEN ConfigFiles ELSE {<<>>}
    /\ catalog \in Catalogs
    /\ MainFresh
    /\ files = EmptyConf
    /\ prevFiles = EmptyConf
    /\ run = 1

MainIdle ==
    /\ hasArg = FALSE
    /\ table_pat = <<>>
    /\ propExists = FALSE
    /\ cfgLines = <<>>
    /\ catalog = [tables |-> {}, columns |-> {}, pks |-> {}, fks |-> {}]
    /\ MainFresh
    /\ files = EmptyConf
    /\ prevFiles = EmptyConf
    /\ run = 0

\* print(...) and then sys.exit(status)
PrintAndExit(what, status) ==
    /\ trace' = Append(trace, Event("print", 0, what))
    /\ pc' = "done"
    /\ outcome' = "exit"
    /\ exitStatus' = status
    /\ UNCHANGED <<propVars, renderVars, inputVars, applied, conf, backend, conn, acquired,
                   tables, idx, metaVars, files, written, pending, failedAt, run,
                   prevFiles>>

\* if len(sys.argv) < 2
Usage ==
    /\ pc = "args"
    /\ ~hasArg
    /\ PrintAndExit("usage", ExitUsage)

ArgsOk ==
    /\ pc = "args"
    /\ hasArg
    /\ pc' = "conf"
    /\ UNCHANGED <<propVars, renderVars, inputVars, applied, conf, backend, conn, acquired,
                   tables, idx, metaVars, files, written, trace, outcome, exitStatus,
                   pending, failedAt, run, prevFiles>>

\* if not prop_path.exists()
NoConfig ==
    /\ pc = "conf"
    /\ ~propExists
    /\ PrintAndExit("no config file", ExitNoConfig)

\* conf = load_properties(prop_path)
Load ==
    /\ pc = "conf"
    /\ propExists
    /\ conf' = load_properties(cfgLines)
    /\ pc' = "dispatch"
    /\ UNCHANGED <<propVars, renderVars, inputVars, applied, backend, conn, acquired,
                   tables, idx, metaVars, files, written, trace, outcome, exitStatus,
                   pending, failedAt, run, prevFiles>>

DispatchTo(be) ==
    /\ backend' = be
    /\ pc' = "connect"
    /\ UNCHANGED <<propVars, renderVars, inputVars, applied, conf, conn, acquired, tables,
                   idx, metaVars, files, written, trace, outcome, exitStatus, pending,
                   failedAt, run, prevFiles>>

\* if db_type == "oracle"
DispatchOracle ==
    /\ pc = "dispatch"
    /\ DbType(conf) = S_oracle
    /\ DispatchTo("oracle")

\* elif db_type == "sqlserver"
DispatchSqlServer ==
    /\ pc = "dispatch"
    /\ DbType(conf) # S_oracle
    /\ DbType(conf) = S_sqlserver
    /\ DispatchTo("sqlserver")

\* a variant that prints and falls off the end of main()
UnsupportedTypeReturns ==
    /\ pc = "dispatch"
    /\ DbType(conf) # S_oracle
    /\ DbType(conf) # S_sqlserver
    /\ trace' = Append(trace, Event("print", 0, "unsupported DB_TYPE"))
    /\ pc' = "done"
    /\ outcome' = "return"
    /\ exitStatus' = 0
    /\ UNCHANGED <<propVars, renderVars, inputVars, applied, conf, backend, conn, acquired,
                   tables, idx, metaVars, files, written, pending, failedAt, run,
                   prevFiles>>

\* else: print(...); sys.exit(3)
UnsupportedType ==
    /\ pc = "dispatch"
    /\ DbType(conf) # S_oracle
    /\ DbType(conf) # S_sqlserver
    /\ PrintAndExit("unsupported DB_TYPE", ExitBadType)

\* oracle_connect(conf) / mssql_connect(conf) returns a connection
Connect ==
    /\ pc = "connect"
    /\ conn' = "open"
    /\ acquired' = acquired + 1
    /\ trace' = Append(trace, Event("connect", 0, backend))
    /\ pc' = "fetch"
    /\ UNCHANGED <<propVars, renderVars, inputVars, applied, conf, backend, tables, idx,
                   metaVars, files, written, outcome, exitStatus, pending, failedAt, run,
                   prevFiles>>

\* the connect call raises (driver not installed, bad port, login refused):
\* the with block / the try block is never entered, the traceback ends the run
ConnectFails ==
    /\ pc = "connect"
    /\ pc' = "done"
    /\ outcome' = "raise"
    /\ exitStatus' = 1
    /\ failedAt' = "connect"
    /\ UNCHANGED <<propVars, renderVars, inputVars, applied, conf, backend, conn, acquired,
                   tables, idx, metaVars, files, written, trace, pending, run, prevFiles>>

\* a variant in which the exception leaves main() with the connection as it is
RaiseSkipsClose(stage) ==
    /\ pc' = "done"
    /\ pending' = "raise"
    /\ failedAt' = stage
    /\ outcome' = "raise"
    /\ exitStatus' = 1
    /\ UNCHANGED conn

\* an exception inside the with block (Oracle) or the try block (SQL Server):
\* control goes to the connection's __exit__ / to the finally clause
Raise(stage) ==
    /\ pc' = "close"
    /\ pending' = "raise"
    /\ failedAt' = stage
    /\ UNCHANGED <<conn, outcome, exitStatus>>

\* the lists the enumeration may return
FetchResult ==
    IF backend = "oracle"
    THEN oracle_fetch_tables(catalog, Schema(conf)[1], table_pat)
    ELSE mssql_fetch_tables(catalog, DbId(conf), table_pat)

\* the predicates of the statement that can select a row: the branch taken in
\* oracle_fetch_tables, the disjuncts the discriminator leaves in mssql_fetch_tables
Predicates ==
    IF backend = "oracle"
    THEN IF is_like_pattern(table_pat) THEN {"LIKE"} ELSE {"="}
    ELSE LET like == IF is_like_pattern(table_pat) THEN 1 ELSE 0
         IN  {p \in {"LIKE", "="} : (p = "LIKE" /\ like = 1) \/ (p = "=" /\ like = 0)}

\* schema.upper() raises when neither ORA_SCHEMA nor ORA_USER is set
CanFetch == backend = "oracle" => Schema(conf) # <<>>

\* a variant that treats an empty enumeration as an error
FetchNoneExits ==
    /\ pc = "fetch"
    /\ CanFetch
    /\ \E ts \in FetchResult :
          /\ ts = <<>>
          /\ tables' = ts
    /\ applied' = Predicates
    /\ trace' = trace \o <<Event("fetch", 0, "query"), Event("print", 0, "no match")>>
    /\ pending' = "raise"
    /\ pc' = "close"
    /\ UNCHANGED <<propVars, renderVars, inputVars, conf, backend, conn, acquired, idx,
                   metaVars, files, written, outcome, exitStatus, failedAt, run,
                   prevFiles>>

\* if not tables: print(...); return
FetchNone ==
    /\ pc = "fetch"
    /\ CanFetch
    /\ \E ts \in FetchResult :
          /\ ts = <<>>
          /\ tables' = ts
    /\ applied' = Predicates
    /\ trace' = trace \o <<Event("fetch", 0, "query"), Event("print", 0, "no match")>>
    /\ pending' = "return"
    /\ pc' = "close"
    /\ UNCHANGED <<propVars, renderVars, inputVars, conf, backend, conn, acquired, idx,
                   metaVars, files, written, outcome, exitStatus, failedAt, run,
                   prevFiles>>

\* tables = ..._fetch_tables(...), and the loop starts with the first table
FetchSome ==
    /\ pc = "fetch"
    /\ CanFetch
    /\ \E ts \in FetchResult :
          /\ ts # <<>>
          /\ tables' = ts
    /\ applied' = Predicates
    /\ trace' = Append(trace, Event("fetch", 0, "query"))
    /\ idx' = 1
    /\ pc' = "cols"
    /\ UNCHANGED <<propVars, renderVars, inputVars, conf, backend, conn, acquired,
                   metaVars, files, written, outcome, exitStatus, pending, failedAt, run,
                   prevFiles>>

ColsResult ==
    IF backend = "oracle"
    THEN OracleCols(catalog, Schema(conf)[1], tables[idx])
    ELSE MssqlCols(catalog, tables[idx])

PkResult ==
    IF backend = "oracle"
    THEN OraclePk(catalog, Schema(conf)[1], tables[idx])
    ELSE MssqlPk(catalog, tables[idx])

FkResult ==
    IF backend = "oracle"
    THEN OracleFk(catalog, Schema(conf)[1], tables[idx])
    ELSE MssqlFk(catalog, tables[idx])

\* cur.execute(cols_sql, ...); cols = [...]
QueryCols ==
    /\ pc = "cols"
    /\ \E cs \in ColsResult : cols' = cs
    /\ trace' = Append(trace, Event("cols", idx, "query"))
    /\ pc' = "pk"
    /\ UNCHANGED <<propVars, renderVars, inputVars, conf, backend, conn, acquired, tables,
                   idx, pk_cols, fk_map, applied, files, written, outcome, exitStatus,
                   pending, failedAt, run, prevFiles>>

\* cur.execute(pk_sql, ...); pk_cols = {...}
QueryPk ==
    /\ pc = "pk"
    /\ pk_cols' = PkResult
    /\ trace' = Append(trace, Event("pk", idx, "query"))
    /\ pc' = "fk"
    /\ UNCHANGED <<propVars, renderVars, inputVars, conf, backend, conn, acquired, tables,
                   idx, cols, fk_map, applied, files, written, outcome, exitStatus,
                   pending, failedAt, run, prevFiles>>

\* cur.execute(fk_sql, ...); fk_map filled in the order of the rows
QueryFk ==
    /\ pc = "fk"
    /\ \E fm \in FkResult : fk_map' = fm
    /\ trace' = Append(trace, Event("fk", idx, "query"))
    /\ pc' = "open"
    /\ UNCHANGED <<propVars, renderVars, inputVars, conf, backend, conn, acquired, tables,
                   idx, cols, pk_cols, applied, files, written, outcome, exitStatus,
                   pending, failedAt, run, prevFiles>>

CurrentPath == FilePath(OutDir(conf, backend), tables[idx])

CurrentDoc ==
    IF backend = "oracle"
    THEN OracleDoc(tables[idx], cols, pk_cols, fk_map)
    ELSE MssqlDoc(tables[idx], cols, pk_cols, fk_map)

\* ensure_dir(out_dir) and the open of write_text: the file exists and is empty
OpenFile ==
    /\ pc = "open"
    /\ files' = DictSet(files, CurrentPath, <<>>)
    /\ trace' = Append(trace, Event("open", idx, "file"))
    /\ pc' = "write"
    /\ UNCHANGED <<propVars, renderVars, inputVars, conf, backend, conn, acquired, tables,
                   idx, metaVars, applied, written, outcome, exitStatus, pending, failedAt,
                   run, prevFiles>>

\* the write and the close of write_text: the file holds the document
WriteFile ==
    /\ pc = "write"
    /\ files' = DictSet(files, CurrentPath, CurrentDoc)
    /\ written' = Append(written, CurrentDoc)
    /\ trace' = Append(trace, Event("write", idx, "file"))
    /\ pc' = "print"
    /\ UNCHANGED <<propVars, renderVars, inputVars, conf, backend, conn, acquired, tables,
                   idx, metaVars, applied, outcome, exitStatus, pending, failedAt, run,
                   prevFiles>>

\* the success line, then the next table or the end of the loop
PrintDone ==
    /\ pc = "print"
    /\ trace' = Append(trace, Event("print", idx, "written"))
    /\ IF idx < Len(tables)
       THEN /\ idx' = idx + 1
            /\ pc' = "cols"
            /\ UNCHANGED pending
       ELSE /\ pc' = "close"
            /\ pending' = "return"
            /\ UNCHANGED idx
    /\ UNCHANGED <<propVars, renderVars, inputVars, conf, backend, conn, acquired, tables,
                   metaVars, applied, files, written, outcome, exitStatus, failedAt, run,
                   prevFiles>>

\* a query, the directory creation, the open or the write raises; a write that
\* raises leaves the file as the open left it
StepFails ==
    /\ pc \in {"fetch", "cols", "pk", "fk", "open", "write"}
    /\ Raise(pc)
    /\ UNCHANGED <<propVars, renderVars, inputVars, conf, backend, acquired, tables, idx,
                   metaVars, applied, files, written, trace, run, prevFiles>>

\* the end of the with block (the __exit__ of a cx_Oracle 8 connection closes
\* it) and the finally clause (conn.close()); then main() returns or the
\* exception goes on to end the process with status 1
Close ==
    /\ pc = "close"
    /\ conn' = "closed"
    /\ trace' = Append(trace, Event("close", 0, backend))
    /\ pc' = "done"
    /\ outcome' = pending
    /\ exitStatus' = IF pending = "raise" THEN 1 ELSE 0
    /\ UNCHANGED <<propVars, renderVars, inputVars, conf, backend, acquired, tables, idx,
                   metaVars, applied, files, written, pending, failedAt, run, prevFiles>>

\* the operator runs the tool again: same argument, config file and catalog
Rerun ==
    /\ pc = "done"
    /\ outcome = "return"
    /\ run < MaxRuns
    /\ pc' = "args"
    /\ conf' = EmptyConf
    /\ backend' = "none"
    /\ conn' = "none"
    /\ acquired' = 0
    /\ tables' = <<>>
    /\ idx' = 0
    /\ cols' = <<>>
    /\ pk_cols' = {}
    /\ fk_map' = EmptyConf
    /\ written' = <<>>
    /\ trace' = <<>>
    /\ applied' = {}
    /\ outcome' = "running"
    /\ exitStatus' = 0
    /\ pending' = "none"
    /\ failedAt' = "none"
    /\ prevFiles' = files
    /\ run' = run + 1
    /\ UNCHANGED <<propVars, renderVars, inputVars, files>>

MainNext ==
    \/ Usage
    \/ ArgsOk
    \/ NoConfig
    \/ Load
    \/ DispatchOracle
    \/ DispatchSqlServer
    \/ UnsupportedType
    \/ Connect
    \/ ConnectFails
    \/ FetchNone
    \/ FetchSome
    \/ QueryCols
    \/ QueryPk
    \/ QueryFk
    \/ OpenFile
    \/ WriteFile
    \/ PrintDone
    \/ StepFails
    \/ Close
    \/ Rerun

Init == MainInit /\ PropsIdle /\ RenderIdle

Spec == Init /\ [][MainNext]_vars

(***************************************************************************)
(* The renderers run over every small column descriptor.                   *)
(***************************************************************************)
TextChars == {"|", "\\", "a", " "}

Optional(S) == {<<>>} \cup {<<v>> : v \in S}

ColumnNames == {<<"A">>, <<"A", "|">>}

PrecisionValues == {0, 10}

ScaleValues == {0, 2}

LengthValues == {255}

DefaultTexts == Optional(SeqsUpTo(TextChars, MaxTextLen))

CommentTexts == {<<>>, << <<>> >>, << <<"a", "|">> >>, << <<"|", "\\", "|">> >>}

FkTargets == {<<"T", ".", "C">>, <<"T", "|", ".", "C">>}

OracleColumns ==
    [column_name : ColumnNames, data_type : {<<"N">>},
     data_length : Optional(LengthValues), data_precision : Optional(PrecisionValues),
     data_scale : Optional(ScaleValues), nullable : {<<"Y">>, <<"N">>},
     data_default : DefaultTexts, column_comment : CommentTexts]

MssqlColumns ==
    [column_name : ColumnNames, data_type : {<<"N">>},
     max_length : Optional(LengthValues), precision : Optional(PrecisionValues),
     scale : Optional(ScaleValues), is_nullable : BOOLEAN,
     data_default : DefaultTexts, column_comment : CommentTexts]

RenderInit ==
    /\ rBackend \in {"oracle", "sqlserver"}
    /\ rCol \in IF rBackend = "oracle" THEN OracleColumns ELSE MssqlColumns
    /\ rPk \in {{}, {rCol.column_name}}
    /\ rFk \in {EmptyConf} \cup {[k \in {rCol.column_name} |-> t] : t \in FkTargets}
    /\ rLens = <<>>
    /\ rDefault = <<>>
    /\ rComment = <<>>
    /\ rRow = <<>>
    /\ rPc = "row"

RenderOracle ==
    /\ rPc = "row"
    /\ rBackend = "oracle"
    /\ rLens' = OracleLens(rCol)
    /\ rDefault' = md_escape(Strip(OrEmpty(rCol.data_default)))
    /\ rComment' = md_escape(OrEmpty(rCol.column_comment))
    /\ rRow' = OracleRow(rCol, rPk, rFk)
    /\ rPc' = "done"
    /\ UNCHANGED <<mainVars, propVars, rBackend, rCol, rPk, rFk>>

RenderMssql ==
    /\ rPc = "row"
    /\ rBackend = "sqlserver"
    /\ rLens' = MssqlLens(rCol)
    /\ rDefault' = md_escape(Strip(OrEmpty(rCol.data_default)))
    /\ rComment' = md_escape(OrEmpty(rCol.column_comment))
    /\ rRow' = MssqlRow(rCol, rPk, rFk)
    /\ rPc' = "done"
    /\ UNCHANGED <<mainVars, propVars, rBackend, rCol, rPk, rFk>>

RenderNext == RenderOracle \/ RenderMssql

InitRender == RenderInit /\ PropsIdle /\ MainIdle

SpecRender == InitRender /\ [][RenderNext]_vars

(***************************************************************************)
(* The config loader run over every small file.                            *)
(***************************************************************************)
LineChars == {" ", "#", "=", "a"}

PropsInit ==
    /\ pLines \in SeqsUpTo(SeqsUpTo(LineChars, MaxLineLen), MaxLines)
    /\ pI = 1
    /\ pConf = EmptyConf
    /\ pPc = "loop"

PropsLine ==
    /\ pPc = "loop"
    /\ pI <= Len(pLines)
    /\ pConf' = LoadLine(pConf, pLines[pI])
    /\ pI' = pI + 1
    /\ UNCHANGED <<mainVars, renderVars, pLines, pPc>>

PropsReturn ==
    /\ pPc = "loop"
    /\ pI > Len(pLines)
    /\ pPc' = "done"
    /\ UNCHANGED <<mainVars, renderVars, pLines, pI, pConf>>

PropsNext == PropsLine \/ PropsReturn

InitProps == PropsInit /\ RenderIdle /\ MainIdle

SpecProps == InitProps /\ [][PropsNext]_vars

(***************************************************************************)
(* What a run did, read off its events.                                    *)
(***************************************************************************)
EventsAt(evs) == {i \in DOMAIN trace : trace[i].ev \in evs}

MetadataEvents == EventsAt({"cols", "pk", "fk"})

FileEvents == EventsAt({"open", "write"})

PrintEvents == EventsAt({"print"})

Fetched == EventsAt({"fetch"}) # {}

InBlock == {"fetch", "cols", "pk", "fk", "open", "write", "print", "close"}

\* the path of the file of the j-th table of the enumeration
PathOf(j) == FilePath(OutDir(conf, backend), tables[j])

\* C1: a run acquires at most one connection, holds it only inside the with /
\* try block, and has closed it when the process ends, however the run ends.
C1_ConnectionClosed ==
    /\ acquired <= 1
    /\ conn = "open" => (acquired = 1 /\ pc \in InBlock)
    /\ pc = "done" =>
          /\ conn # "open"
          /\ acquired = 1 =>
                /\ conn = "closed"
                /\ Cardinality(EventsAt({"connect"})) = 1
                /\ Cardinality(EventsAt({"close"})) = 1
                /\ trace[Len(trace)].ev = "close"
          /\ (outcome = "return" \/ failedAt \in InBlock) => acquired = 1

\* a run that wrote one file and failed on the write of the next ended with
\* its connection closed
C1_Witness ==
    /\ pc = "done"
    /\ outcome = "raise"
    /\ failedAt = "write"
    /\ idx = 2
    /\ acquired = 1
    /\ conn = "closed"

\* C2: no argument, no config file and an unrecognized DB_TYPE end the process
\* with the statuses 1, 2 and 3, after one printed message, with no connection
\* opened and no file written.
C2_UsageErrors ==
    pc = "done" =>
        /\ ~hasArg => (outcome = "exit" /\ exitStatus = 1)
        /\ (hasArg /\ ~propExists) => (outcome = "exit" /\ exitStatus = 2)
        /\ (hasArg /\ propExists
              /\ ToLower(DictGet(load_properties(cfgLines), K_DB_TYPE, <<>>))
                    \notin {S_oracle, S_sqlserver})
              => (outcome = "exit" /\ exitStatus = 3)
        /\ outcome = "exit" =>
              /\ exitStatus \in {1, 2, 3}
              /\ Len(trace) = 1 /\ trace[1].ev = "print"
              /\ acquired = 0 /\ conn = "none"
              /\ files = EmptyConf

\* a run whose config file names an unsupported backend ended with status 3
C2_Witness ==
    /\ pc = "done"
    /\ hasArg /\ propExists
    /\ K_DB_TYPE \in DOMAIN conf
    /\ outcome = "exit"
    /\ exitStatus = 3

\* C3 as claimed: a run that completes on n >= 1 tables has written n files,
\* one per returned table, and its events are, table after table in the order
\* of the enumeration, the three queries, the write and the success line.
C3_AsClaimed ==
    (pc = "done" /\ outcome = "return" /\ Len(tables) >= 1) =>
        /\ Cardinality({PathOf(j) : j \in DOMAIN tables}) = Len(tables)
        /\ {PathOf(j) : j \in DOMAIN tables} \subseteq DOMAIN files
        /\ Cardinality(PrintEvents) = Len(tables)
        /\ \A j \in DOMAIN tables : j < Len(tables) => StrLeq(tables[j], tables[j + 1])
        /\ Len(trace) = 6 * Len(tables) + 3
        /\ \A j \in DOMAIN tables :
              /\ trace[6 * j - 3] = Event("cols", j, "query")
              /\ trace[6 * j - 2] = Event("pk", j, "query")
              /\ trace[6 * j - 1] = Event("fk", j, "query")
              /\ trace[6 * j] = Event("open", j, "file")
              /\ trace[6 * j + 1] = Event("write", j, "file")
              /\ trace[6 * j + 2] = Event("print", j, "written")

\* C4: when the enumeration returns no table, the run issues no metadata
\* query, writes no file, prints one message and ends with status 0.
C4_NoMatch ==
    (Fetched /\ tables = <<>>) =>
        /\ MetadataEvents = {}
        /\ FileEvents = {}
        /\ files = prevFiles
        /\ Cardinality(PrintEvents) = 1
        /\ \A i \in PrintEvents : trace[i].what = "no match"
        /\ pc \in {"close", "done"}
        /\ pc = "done" => (outcome = "return" /\ exitStatus = 0)

\* a run on a pattern that matches no table has ended
C4_Witness ==
    /\ pc = "done"
    /\ Fetched
    /\ tables = <<>>
    /\ outcome = "return"
    /\ exitStatus = 0
    /\ files = EmptyConf

\* C5 as claimed: a second completed run on the same config, pattern and
\* catalog leaves every output file as the first run left it.
C5_AsClaimed == (run >= 2 /\ pc = "done" /\ outcome = "return") => files = prevFiles

\* the tables the claimed rule selects: pattern match when the pattern holds a
\* "%" or a "_", equality otherwise, both on the upper-cased texts
HasWildcard == \E i \in DOMAIN table_pat : table_pat[i] \in {"%", "_"}

Selected ==
    {t \in catalog.tables :
        /\ backend = "oracle" => t.owner = ToUpper(OrEmpty(Schema(conf)))
        /\ IF HasWildcard THEN SqlLike(ToUpper(t.name), ToUpper(table_pat))
           ELSE ToUpper(t.name) = ToUpper(table_pat)}

\* C7: the enumeration applies the LIKE predicate when the pattern holds a "%"
\* or a "_" and the equality predicate otherwise, never both and never neither,
\* and returns the names the applied predicate selects.
C7_LikeOrExact ==
    Fetched =>
        /\ applied = IF HasWildcard THEN {"LIKE"} ELSE {"="}
        /\ {tables[j] : j \in DOMAIN tables} = {t.name : t \in Selected}

\* an enumeration on a pattern whose only wildcard is "_" used LIKE and found tables
C7_Witness ==
    /\ Fetched
    /\ Contains(table_pat, "_") /\ ~Contains(table_pat, "%")
    /\ applied = {"LIKE"}
    /\ Len(tables) = 2

\* the last table before the k-th that was written to the same path as the j-th
LastWriter(j, k) ==
    CHOOSE m \in 1..(k - 1) :
        /\ PathOf(m) = PathOf(j)
        /\ \A n \in 1..(k - 1) : PathOf(n) = PathOf(j) => n <= m

\* C8 as claimed: when a query or the write for the k-th table fails, nothing
\* happens for a later table, no success line is printed for the k-th, and the
\* files of the first k-1 tables are as they were written.
C8_AsClaimed ==
    (pc = "done" /\ outcome = "raise" /\ failedAt \in {"cols", "pk", "fk", "open", "write"}) =>
        /\ \A i \in DOMAIN trace : trace[i].t <= idx
        /\ \A i \in PrintEvents : trace[i].t < idx
        /\ Len(written) = idx - 1
        /\ \A j \in 1..(idx - 1) :
              /\ PathOf(j) \in DOMAIN files
              /\ files[PathOf(j)] = written[LastWriter(j, idx)]

(***************************************************************************)
(* C6.  The mapping the spec describes, stated without the loader's scan:  *)
(* the trimmed text is the span from the first to the last non-blank       *)
(* character, and the split point is the least position holding "=".       *)
(***************************************************************************)
NonBlank(s) == {i \in DOMAIN s : s[i] # " "}

Least(S) == CHOOSE i \in S : \A j \in S : i <= j

Greatest(S) == CHOOSE i \in S : \A j \in S : j <= i

Trimmed(s) ==
    IF NonBlank(s) = {} THEN <<>>
    ELSE SubSeq(s, Least(NonBlank(s)), Greatest(NonBlank(s)))

EqAt(s) == {i \in DOMAIN s : s[i] = "="}

IsIgnored(raw) == Trimmed(raw) = <<>> \/ Trimmed(raw)[1] = "#"

Contributes(raw) == ~IsIgnored(raw) /\ EqAt(raw) # {}

KeyOf(raw) ==
    LET t == Trimmed(raw) IN Trimmed(SubSeq(t, 1, Least(EqAt(t)) - 1))

ValueOf(raw) ==
    LET t == Trimmed(raw) IN Trimmed(SubSeq(t, Least(EqAt(t)) + 1, Len(t)))

LinesOfKey(k) == {i \in DOMAIN pLines : Contributes(pLines[i]) /\ KeyOf(pLines[i]) = k}

Numeral(n) ==
    CASE n = 0 -> <<"0">>
      [] n = 2 -> <<"2">>
      [] n = 10 -> <<"1", "0">>
      [] n = 255 -> <<"2", "5", "5">>

ColPrecision == IF rBackend = "oracle" THEN rCol.data_precision ELSE rCol.precision

ColScale == IF rBackend = "oracle" THEN rCol.data_scale ELSE rCol.scale

ColLength == IF rBackend = "oracle" THEN rCol.data_length ELSE rCol.max_length

PrecisionScale == Numeral(ColPrecision[1]) \o <<",">> \o Numeral(ColScale[1])

\* C9 as claimed: for both renderers the cell is "precision,scale" when a
\* precision and a non-zero scale are present, the precision alone when the
\* scale is absent, the length when only a length is present, else empty.
C9_AsClaimed ==
    rPc = "done" =>
        /\ (ColPrecision # <<>> /\ ColScale # <<>> /\ ColScale[1] # 0) => rLens = PrecisionScale
        /\ (ColPrecision # <<>> /\ ColScale = <<>>) => rLens = Numeral(ColPrecision[1])
        /\ (ColPrecision = <<>> /\ ColLength # <<>>) => rLens = Numeral(ColLength[1])
        /\ (ColPrecision = <<>> /\ ColLength = <<>>) => rLens = <<>>

\* C9 as amended: the Oracle renderer follows the claimed rule (and writes
\* "precision,scale" for every present scale, zero included); the SQL Server
\* renderer writes "precision,scale" when a non-zero precision and a scale are
\* present, and in every other case the max length if present, else nothing.
C9_LengthPrecisionCell ==
    rPc = "done" =>
        /\ rBackend = "oracle" =>
              /\ (ColPrecision # <<>> /\ ColScale # <<>>) => rLens = PrecisionScale
              /\ (ColPrecision # <<>> /\ ColScale = <<>>) => rLens = Numeral(ColPrecision[1])
              /\ (ColPrecision = <<>> /\ ColLength # <<>>) => rLens = Numeral(ColLength[1])
              /\ (ColPrecision = <<>> /\ ColLength = <<>>) => rLens = <<>>
        /\ rBackend = "sqlserver" =>
              LET both == ColPrecision # <<>> /\ ColPrecision[1] # 0 /\ ColScale # <<>>
              IN  /\ both => rLens = PrecisionScale
                  /\ (~both /\ ColLength # <<>>) => rLens = Numeral(ColLength[1])
                  /\ (~both /\ ColLength = <<>>) => rLens = <<>>

\* a SQL Server column with precision 10, no scale and max length 255 was
\* rendered, and its cell is the length
C9_Witness ==
    /\ rPc = "done"
    /\ rBackend = "sqlserver"
    /\ ColPrecision = <<10>> /\ ColScale = <<>> /\ ColLength = <<255>>
    /\ rLens = <<"2", "5", "5">>

(***************************************************************************)
(* C10.  Pipes in the default and the comment.                             *)
(***************************************************************************)
PipesOf(s) == {i \in DOMAIN s : s[i] = "|"}

\* a "|" counts as a delimiter unless a backslash stands directly before it
UnescapedPipes(s) == {i \in PipesOf(s) : i = 1 \/ s[i - 1] # "\\"}

\* the text with the backslash before each "|" taken out
RECURSIVE Unescaped(_)
Unescaped(s) ==
    IF s = <<>> THEN <<>>
    ELSE IF Len(s) >= 2 /\ s[1] = "\\" /\ s[2] = "|"
         THEN <<"|">> \o Unescaped(SubSeq(s, 3, Len(s)))
         ELSE <<s[1]>> \o Unescaped(Tail(s))

EscapedFrom(cell, src) ==
    /\ PipesOf(cell) \cap UnescapedPipes(cell) = {}
    /\ Len(cell) = Len(src) + Cardinality(PipesOf(src))
    /\ Unescaped(cell) = src

HasPipeText ==
    \/ PipesOf(Trimmed(OrEmpty(rCol.data_default))) # {}
    \/ PipesOf(OrEmpty(rCol.column_comment)) # {}

EightCells == Cardinality(UnescapedPipes(rRow)) = Cardinality(UnescapedPipes(HeaderLine))

OtherCellsPipeFree ==
    /\ PipesOf(rCol.column_name) = {}
    /\ PipesOf(rCol.data_type) = {}
    /\ PipesOf(DictGet(rFk, rCol.column_name, <<>>)) = {}

\* C10 as claimed: for every column whose default or comment holds a "|", each
\* such "|" is written as "\|" and the row has as many unescaped "|" as the header.
C10_AsClaimed ==
    (rPc = "done" /\ HasPipeText) =>
        /\ EscapedFrom(rDefault, Trimmed(OrEmpty(rCol.data_default)))
        /\ EscapedFrom(rComment, OrEmpty(rCol.column_comment))
        /\ EightCells

\* C10 as amended: each "|" of the default and of the comment is written as
\* "\|"; the row has as many unescaped "|" as the header when the column name,
\* the type and the foreign-key target, which are written as they are, hold none.
C10_PipesEscaped ==
    (rPc = "done" /\ HasPipeText) =>
        /\ EscapedFrom(rDefault, Trimmed(OrEmpty(rCol.data_default)))
        /\ EscapedFrom(rComment, OrEmpty(rCol.column_comment))
        /\ OtherCellsPipeFree => EightCells

\* a row was rendered from a default and a comment that both hold a "|"
C10_Witness ==
    /\ rPc = "done"
    /\ PipesOf(Trimmed(OrEmpty(rCol.data_default))) # {}
    /\ PipesOf(OrEmpty(rCol.column_comment)) # {}
    /\ OtherCellsPipeFree
    /\ EightCells
    /\ Cardinality(PipesOf(rRow)) > Cardinality(UnescapedPipes(rRow))

====
